---- MODULE Spec2Model ----
(***************************************************************************)
(* Model of the B91 hardware backend of the mbedtls elliptic-curve module  *)
(* (ecp_alt_b91_backend.c): the word codec, the curve registries, the      *)
(* curve classifier, the three public operations and the accelerator lock. *)
(*                                                                         *)
(* A bignum (mbedtls_mpi) is the sequence of its limbs, least significant  *)
(* first: X->n is Len(X) and X->p == NULL is X = << >>.  A scratch buffer  *)
(* (unsigned int[word_len]) is the sequence of its bytes in memory order   *)
(* (the target is little endian), so sizeof(buf) is Len(buf).              *)
(*                                                                         *)
(* Assumptions of the model: mbedtls_mpi_grow never runs out of memory;    *)
(* the hardware engine is a fixed function of its operand buffers that     *)
(* either succeeds or reports a status other than PKE_SUCCESS.             *)
(***************************************************************************)
EXTENDS Integers, Sequences, FiniteSets, TLC

\* ------------------------------------------------------------------ bounds
NumThreads == 2          \* concurrent callers in Spec
MaxLimbs == 2            \* longest bignum given to the codec in SpecCodec
MaxBufLen == 6           \* longest destination (bytes) in SpecCodec

\* ----------------------------------------------------- program constants
ciL == 4                       \* sizeof(mbedtls_mpi_uint): chars in limb
WordBytes == 4                 \* sizeof(unsigned int): bytes of a buffer word
PKE_OPERAND_MAX_WORD_LEN == 8  \* widest operand of the engine, in words
EngMod == 11                   \* modulus of the stand-in engine arithmetic

SUCCESS == "0"
MBEDTLS_ERR_MPI_BUFFER_TOO_SMALL == "MBEDTLS_ERR_MPI_BUFFER_TOO_SMALL"
MBEDTLS_ERR_ECP_BAD_INPUT_DATA == "MBEDTLS_ERR_ECP_BAD_INPUT_DATA"
MBEDTLS_ERR_ECP_INVALID_KEY == "MBEDTLS_ERR_ECP_INVALID_KEY"
MBEDTLS_ERR_PLATFORM_FEATURE_UNSUPPORTED == "MBEDTLS_ERR_PLATFORM_FEATURE_UNSUPPORTED"
MBEDTLS_ERR_PLATFORM_HW_ACCEL_FAILED == "MBEDTLS_ERR_PLATFORM_HW_ACCEL_FAILED"

PKE_SUCCESS == "PKE_SUCCESS"
PKE_NOT_ON_CURVE == "PKE_NOT_ON_CURVE"
PKE_FAULT == "PKE_FAULT"

ECP_TYPE_NONE == "ECP_TYPE_NONE"
ECP_TYPE_SHORT_WEIERSTRASS == "ECP_TYPE_SHORT_WEIERSTRASS"
ECP_TYPE_MONTGOMERY == "ECP_TYPE_MONTGOMERY"

NoCurve == "NULL"

\* ------------------------------------------------------------- word codec
Pow256(k) == IF k = 0 THEN 1 ELSE IF k = 1 THEN 256 ELSE IF k = 2 THEN 65536 ELSE 16777216

\* GET_BYTE( X, i ): byte i (from 0) of the limbs of X, without range checks.
GET_BYTE(X, i) == (X[(i \div ciL) + 1] \div Pow256(i % ciL)) % 256

CHARS_TO_LIMBS(i) == (i \div ciL) + (IF i % ciL # 0 THEN 1 ELSE 0)

\* The loop of lines 422-426 reading one byte too late.
LeadingByteNonZero_OffByOne(X, buflen) ==
    \E i \in (buflen + 1)..(Len(X) * ciL - 1) : GET_BYTE(X, i) # 0

\* for( i = bytes_to_copy; i < stored_bytes; i++ ) if( GET_BYTE( X, i ) != 0 )
LeadingByteNonZero(X, buflen) ==
    \E i \in buflen..(Len(X) * ciL - 1) : GET_BYTE(X, i) # 0

\* The export without its trailing memset (lines 432-436 left out).
WriteBytes_NoFill(X, buf, buflen) ==
    LET stored_bytes == Len(X) * ciL
        bytes_to_copy == IF stored_bytes < buflen THEN stored_bytes ELSE buflen
    IN  [i \in 1..buflen |-> IF i - 1 < bytes_to_copy THEN GET_BYTE(X, i - 1) ELSE buf[i]]

\* Lines 429-436: copy bytes_to_copy bytes, then zero the tail when X is shorter.
WriteBytes(X, buf, buflen) ==
    LET stored_bytes == Len(X) * ciL
        bytes_to_copy == IF stored_bytes < buflen THEN stored_bytes ELSE buflen
    IN  [i \in 1..buflen |->
            IF i - 1 < bytes_to_copy THEN GET_BYTE(X, i - 1)
            ELSE IF stored_bytes < buflen /\ i - 1 >= stored_bytes THEN 0
            ELSE buf[i]]

\* mbedtls_mpi_write_binary_le: the return code and the destination afterwards.
\* On MBEDTLS_ERR_MPI_BUFFER_TOO_SMALL it returns before writing anything.
mbedtls_mpi_write_binary_le(X, buf, buflen) ==
    LET stored_bytes == Len(X) * ciL
    IN  IF ~(stored_bytes < buflen) /\ LeadingByteNonZero(X, buflen)
        THEN [ret |-> MBEDTLS_ERR_MPI_BUFFER_TOO_SMALL, buf |-> buf]
        ELSE [ret |-> SUCCESS, buf |-> WriteBytes(X, buf, buflen)]

\* mbedtls_mpi_lset( X, z ): grow to at least one limb, clear, set limb 0.
mbedtls_mpi_lset(X, z) ==
    [i \in 1..(IF Len(X) = 0 THEN 1 ELSE Len(X)) |-> IF i = 1 THEN z ELSE 0]

\* a | b on limbs.
RECURSIVE BitOr(_, _)
BitOr(a, b) ==
    IF a = 0 THEN b
    ELSE IF b = 0 THEN a
    ELSE (IF a % 2 = 1 \/ b % 2 = 1 THEN 1 ELSE 0) + 2 * BitOr(a \div 2, b \div 2)

\* The bytes of a limb taken most significant first.
LimbOf_BigEndian(buf, buflen, j) ==
    LET B(i) == IF i < buflen THEN buf[i + 1] ELSE 0
    IN  16777216 * B(ciL * j) + 65536 * B(ciL * j + 1) + 256 * B(ciL * j + 2) + B(ciL * j + 3)

\* What the loop of lines 463-464 ORs into limb j (from 0):
\* ((mbedtls_mpi_uint) buf[i]) << ((i % ciL) << 3) for the i with i / ciL = j.
LimbOf(buf, buflen, j) ==
    LET B(i) == IF i < buflen THEN buf[i + 1] ELSE 0
    IN  B(ciL * j) + 256 * B(ciL * j + 1) + 65536 * B(ciL * j + 2) + 16777216 * B(ciL * j + 3)

\* The destination resized but not cleared (mbedtls_mpi_lset left out).
ClearedLimbs_NoLset(X, limbs) ==
    IF Len(X) # limbs THEN [i \in 1..(IF limbs = 0 THEN 1 ELSE limbs) |-> 0] ELSE X

\* Lines 455-461: X freed and grown to limbs zero limbs when X->n differs,
\* then mbedtls_mpi_lset( X, 0 ).
ClearedLimbs(X, limbs) ==
    mbedtls_mpi_lset(IF Len(X) # limbs THEN [i \in 1..limbs |-> 0] ELSE X, 0)

\* mbedtls_mpi_read_binary_le: X afterwards.  X gets exactly
\* CHARS_TO_LIMBS( buflen ) limbs (one when buflen is 0), is cleared and
\* has the bytes ORed in.
mbedtls_mpi_read_binary_le(X, buf, buflen) ==
    LET limbs == CHARS_TO_LIMBS(buflen)
        X0 == ClearedLimbs(X, limbs)
    IN  [j \in 1..Len(X0) |->
            BitOr(X0[j], IF j <= limbs THEN LimbOf(buf, buflen, j - 1) ELSE 0)]

\* -------------------------------------------------------- curve registries
\* eccp_curve_linking[] and mont_curve_linking[], with every curve enabled:
\* the group ids in table order.  The curve data of an entry is named by its id.
eccp_curve_linking ==
    << "MBEDTLS_ECP_DP_SECP256R1", "MBEDTLS_ECP_DP_SECP256K1", "MBEDTLS_ECP_DP_BP256R1",
       "MBEDTLS_ECP_DP_SECP224R1", "MBEDTLS_ECP_DP_SECP224K1", "MBEDTLS_ECP_DP_SECP192R1",
       "MBEDTLS_ECP_DP_SECP192K1" >>

mont_curve_linking == << "MBEDTLS_ECP_DP_CURVE25519" >>

\* The linear scan of both lookups: the first entry from index i on whose
\* group equals id, NULL when the table is exhausted.
\* A lookup that falls back on the first entry of the table.
Scan_DefaultFirst(table, id, i) ==
    IF \E j \in i..Len(table) : table[j] = id THEN id ELSE table[1]

RECURSIVE Scan(_, _, _)
Scan(table, id, i) ==
    IF i > Len(table) THEN NoCurve
    ELSE IF table[i] = id THEN table[i]
    ELSE Scan(table, id, i + 1)

eccp_curve_get(grp) == Scan(eccp_curve_linking, grp.id, 1)

mont_curve_get(grp) == Scan(mont_curve_linking, grp.id, 1)

\* ------------------------------------------------------- curve classifier
\* The classifier testing Y before X.
ecp_get_type_YFirst(grp) ==
    IF grp.G.Y = << >> THEN ECP_TYPE_MONTGOMERY
    ELSE IF grp.G.X = << >> THEN ECP_TYPE_NONE
    ELSE ECP_TYPE_SHORT_WEIERSTRASS

\* static inline ecp_curve_type ecp_get_type( const mbedtls_ecp_group *grp )
ecp_get_type(grp) ==
    IF grp.G.X = << >> THEN ECP_TYPE_NONE
    ELSE IF grp.G.Y = << >> THEN ECP_TYPE_MONTGOMERY
    ELSE ECP_TYPE_SHORT_WEIERSTRASS

\* GET_WORD_LEN( bitLen ): words needed for bitLen bits.
GET_WORD_LEN(bitLen) == (bitLen + 31) \div 32

\* -------------------------------------------------------- hardware engine
\* The engine is outside the repository's sources.  Its results are modelled
\* as a fixed function of the operand buffers: each buffer is read as the
\* position-weighted sum of its bytes modulo EngMod, and a result is written
\* as that number in byte 0 of a buffer of the same width.
RECURSIVE WSum(_, _)
WSum(buf, i) == IF i > Len(buf) THEN 0 ELSE i * buf[i] + WSum(buf, i + 1)

Val(buf) == WSum(buf, 1) % EngMod

ToBuf(v, len) == [i \in 1..len |-> IF i = 1 THEN v ELSE 0]

pke_eccp_point_mul(k, Px, Py) ==
    [x |-> ToBuf((Val(k) * Val(Px) + 1) % EngMod, Len(Px)),
     y |-> ToBuf((Val(k) * Val(Py) + 2) % EngMod, Len(Py))]

pke_x25519_point_mul(k, Pu) == ToBuf((Val(k) * Val(Pu) + 3) % EngMod, Len(Pu))

pke_eccp_point_add(P1x, P1y, P2x, P2y) ==
    [x |-> ToBuf((Val(P1x) + 2 * Val(P2x) + 1) % EngMod, Len(P1x)),
     y |-> ToBuf((Val(P1y) + 3 * Val(P2y) + 2) % EngMod, Len(P1y))]

\* ------------------------------------------------------------------ state
VARIABLES
    pc,       \* per thread: where its current call stands
    op,       \* per thread: the arguments of its current call
    bufs,     \* per thread: the scratch buffers ms, Q1x, Q1y, Q2x, Q2y of the call
              \* (Qx, Qy of check_pubkey and mul are held in Q1x, Q1y)
    result,   \* per thread: the local variable result
    R,        \* per thread: the output point of the call
    status,   \* per thread: what the last engine call of the call returned
    calls,    \* per thread: engine invocations made by the call
    acq,      \* per thread: mbedtls_ecp_lock() calls made by the call
    rel,      \* per thread: mbedtls_ecp_unlock() calls made by the call
    lock,     \* the accelerator lock: 0 when free, else the holding thread
    codec,    \* the codec under test in SpecCodec
    look      \* the classifier and the lookups under test in SpecLookup

vars == << pc, op, bufs, result, R, status, calls, acq, rel, lock, codec, look >>

Threads == 1..NumThreads

EnginePcs == {"verify", "mul", "x25519", "mul1", "mul2", "add"}

NoBufs == [ms |-> << >>, Q1x |-> << >>, Q1y |-> << >>, Q2x |-> << >>, Q2y |-> << >>]

NoPoint == [X |-> << >>, Y |-> << >>, Z |-> << >>]

NoGroup == [id |-> "MBEDTLS_ECP_DP_NONE", pbits |-> 0, G |-> NoPoint]

NoArgs ==
    [fn |-> "none", grp |-> NoGroup, m |-> << >>, P |-> NoPoint, n |-> << >>,
     Q |-> NoPoint, R0 |-> NoPoint, nulls |-> {}, g |-> 0]

CodecIdle ==
    [pc |-> "off", X |-> << >>, buflen |-> 0, buf |-> << >>, ret |-> SUCCESS,
     dst |-> << >>, Y |-> << >>]

Goto(t, to) == pc' = [pc EXCEPT ![t] = to]

\* ---------------------------------------------------- accelerator lock
\* mbedtls_ecp_lock() and mbedtls_ecp_unlock() of multithread.h: an
\* exclusive lock, taken only when free.
mbedtls_ecp_lock(t) == lock = 0 /\ lock' = t

mbedtls_ecp_unlock(t) == lock' = 0

\* ------------------------------------------------------ shared pieces
\* The null test of an entry point ignoring its output argument.
ArgsPresent_SkipR(nulls, required) == nulls \cap (required \ {"R"}) = {}

\* if ( grp != NULL && ... ): every required pointer argument is present.
ArgsPresent(nulls, required) == nulls \cap required = {}

\* if ( word_len <= PKE_OPERAND_MAX_WORD_LEN )
WidthOk(word_len) == word_len <= PKE_OPERAND_MAX_WORD_LEN

\* unsigned int buf[word_len]: an uninitialised array, every byte being
\* whatever the stack held (g).
StackArray(word_len, g) == [i \in 1..(word_len * WordBytes) |-> g]

\* The final memsets leaving the scalar buffer as it is.
Wiped_KeepMs(b) ==
    [ms |-> b.ms,
     Q1x |-> [i \in 1..Len(b.Q1x) |-> 0], Q1y |-> [i \in 1..Len(b.Q1y) |-> 0],
     Q2x |-> [i \in 1..Len(b.Q2x) |-> 0], Q2y |-> [i \in 1..Len(b.Q2y) |-> 0]]

\* memset( buf, 0, sizeof( buf ) ) of every scratch buffer of the call.
Wiped(b) ==
    [ms |-> [i \in 1..Len(b.ms) |-> 0],
     Q1x |-> [i \in 1..Len(b.Q1x) |-> 0], Q1y |-> [i \in 1..Len(b.Q1y) |-> 0],
     Q2x |-> [i \in 1..Len(b.Q2x) |-> 0], Q2y |-> [i \in 1..Len(b.Q2y) |-> 0]]

\* ( void ) mbedtls_mpi_write_binary_le( X, buf, sizeof( buf ) ): the buffer
\* afterwards, the return code being discarded.
Encoded(X, buf) == mbedtls_mpi_write_binary_le(X, buf, Len(buf)).buf

\* Entry of a call by thread t: the call's locals after the code that runs
\* before the lock is asked for (or before the function returns).
Enter(t, fn, a, b, res, to) ==
    /\ pc[t] = "idle"
    /\ Goto(t, to)
    /\ op' = [op EXCEPT ![t] = [a EXCEPT !.fn = fn]]
    /\ bufs' = [bufs EXCEPT ![t] = b]
    /\ result' = [result EXCEPT ![t] = res]
    /\ R' = [R EXCEPT ![t] = a.R0]
    /\ status' = [status EXCEPT ![t] = "none"]
    /\ calls' = [calls EXCEPT ![t] = 0]
    /\ acq' = [acq EXCEPT ![t] = 0]
    /\ rel' = [rel EXCEPT ![t] = 0]
    /\ UNCHANGED << lock, codec, look >>

\* The result of the code before the lock: bad input, or unsupported.
EarlyResult(present) ==
    IF present THEN MBEDTLS_ERR_PLATFORM_FEATURE_UNSUPPORTED
    ELSE MBEDTLS_ERR_ECP_BAD_INPUT_DATA

\* The first engine invocation made without asking for the lock.
LockAndInvoke_NoLock(t, fn, to, b) ==
    /\ pc[t] = "lock"
    /\ op[t].fn = fn
    /\ Goto(t, to)
    /\ bufs' = [bufs EXCEPT ![t] = b]
    /\ calls' = [calls EXCEPT ![t] = @ + 1]
    /\ UNCHANGED << op, result, R, status, acq, rel, lock, codec, look >>

\* mbedtls_ecp_lock() followed by the first engine invocation of the call.
LockAndInvoke(t, fn, to, b) ==
    /\ pc[t] = "lock"
    /\ op[t].fn = fn
    /\ mbedtls_ecp_lock(t)
    /\ Goto(t, to)
    /\ bufs' = [bufs EXCEPT ![t] = b]
    /\ acq' = [acq EXCEPT ![t] = @ + 1]
    /\ calls' = [calls EXCEPT ![t] = @ + 1]
    /\ UNCHANGED << op, result, R, status, rel, codec, look >>

\* The locked region left without mbedtls_ecp_unlock().
Unlock_KeepsLock(t, fn, to) ==
    /\ pc[t] = "unlock"
    /\ op[t].fn = fn
    /\ Goto(t, to)
    /\ UNCHANGED << op, bufs, result, R, status, calls, acq, rel, lock, codec, look >>

\* mbedtls_ecp_unlock() on the way out of the locked region; the function
\* continues at to.
Unlock(t, fn, to) ==
    /\ pc[t] = "unlock"
    /\ op[t].fn = fn
    /\ mbedtls_ecp_unlock(t)
    /\ Goto(t, to)
    /\ rel' = [rel EXCEPT ![t] = @ + 1]
    /\ UNCHANGED << op, bufs, result, R, status, calls, acq, codec, look >>

\* The memsets that end the block of the scratch buffers, then return result.
Cleanup(t, fn) ==
    /\ pc[t] = "cleanup"
    /\ op[t].fn = fn
    /\ Goto(t, "done")
    /\ bufs' = [bufs EXCEPT ![t] = Wiped(bufs[t])]
    /\ UNCHANGED << op, result, R, status, calls, acq, rel, lock, codec, look >>

\* The caller has taken the result: the thread is ready for its next call.
Return(t) ==
    /\ pc[t] = "done"
    /\ Goto(t, "idle")
    /\ op' = [op EXCEPT ![t] = NoArgs]
    /\ bufs' = [bufs EXCEPT ![t] = NoBufs]
    /\ result' = [result EXCEPT ![t] = "none"]
    /\ R' = [R EXCEPT ![t] = NoPoint]
    /\ status' = [status EXCEPT ![t] = "none"]
    /\ calls' = [calls EXCEPT ![t] = 0]
    /\ acq' = [acq EXCEPT ![t] = 0]
    /\ rel' = [rel EXCEPT ![t] = 0]
    /\ UNCHANGED << lock, codec, look >>

\* ------------------------------------------- ecp_alt_b91_backend_check_pubkey
\* The dispatch of check_pubkey written like that of mul: either family.
CheckPubkeySupported_AnyFamily(grp) ==
    \/ ecp_get_type(grp) = ECP_TYPE_SHORT_WEIERSTRASS /\ eccp_curve_get(grp) # NoCurve
    \/ ecp_get_type(grp) = ECP_TYPE_MONTGOMERY /\ mont_curve_get(grp) # NoCurve

\* if ( ecp_get_type( grp ) == ECP_TYPE_SHORT_WEIERSTRASS ) ... if ( eccp_curve != NULL )
CheckPubkeySupported(grp) ==
    ecp_get_type(grp) = ECP_TYPE_SHORT_WEIERSTRASS /\ eccp_curve_get(grp) # NoCurve

\* The result check_pubkey derives from the status of pke_eccp_point_verify.
CheckPubkeyResult(st) ==
    IF st = PKE_SUCCESS THEN SUCCESS ELSE MBEDTLS_ERR_ECP_INVALID_KEY

\* Entry: argument and width checks, Qx and Qy, dispatch, encoding of pt.
ecp_alt_b91_backend_check_pubkey(t, a) ==
    LET present == ArgsPresent(a.nulls, {"grp", "P"})
        word_len == GET_WORD_LEN(a.grp.pbits)
        alloc == present /\ WidthOk(word_len)
        go == alloc /\ CheckPubkeySupported(a.grp)
        stack == StackArray(word_len, a.g)
        b == IF ~alloc THEN NoBufs
             ELSE IF ~go THEN [NoBufs EXCEPT !.Q1x = stack, !.Q1y = stack]
             ELSE [NoBufs EXCEPT !.Q1x = Encoded(a.P.X, stack),
                                 !.Q1y = Encoded(a.P.Y, stack)]
    IN  Enter(t, "check_pubkey", a, b, EarlyResult(present),
              IF go THEN "lock" ELSE IF alloc THEN "cleanup" ELSE "done")

\* mbedtls_ecp_lock(); pke_eccp_point_verify( eccp_curve, Qx, Qy ) is entered.
check_pubkey_lock(t) == LockAndInvoke(t, "check_pubkey", "verify", bufs[t])

\* pke_eccp_point_verify returns st.
check_pubkey_verify(t, st) ==
    /\ pc[t] = "verify"
    /\ Goto(t, "unlock")
    /\ status' = [status EXCEPT ![t] = st]
    /\ result' = [result EXCEPT ![t] = CheckPubkeyResult(st)]
    /\ UNCHANGED << op, bufs, R, calls, acq, rel, lock, codec, look >>

check_pubkey_unlock(t) == Unlock(t, "check_pubkey", "cleanup")

check_pubkey_cleanup(t) == Cleanup(t, "check_pubkey")

\* --------------------------------------------------- ecp_alt_b91_backend_mul
\* mul written without the lookup of the group id in the registries.
MulBranch_NoLookup(grp) == ecp_get_type(grp)

\* The family whose branch of mul runs for grp, ECP_TYPE_NONE when neither.
MulBranch(grp) ==
    IF ecp_get_type(grp) = ECP_TYPE_SHORT_WEIERSTRASS /\ eccp_curve_get(grp) # NoCurve
    THEN ECP_TYPE_SHORT_WEIERSTRASS
    ELSE IF ecp_get_type(grp) = ECP_TYPE_MONTGOMERY /\ mont_curve_get(grp) # NoCurve
    THEN ECP_TYPE_MONTGOMERY
    ELSE ECP_TYPE_NONE

\* The Montgomery branch entered after the short Weierstrass one whatever
\* the group.
MulAfterWeierstrass_FallsThrough(grp) == "lock"

\* Where mul continues after the short Weierstrass branch: the test of
\* line 601 and the lookup of line 604 are evaluated on the same group.
MulAfterWeierstrass(grp) ==
    IF ecp_get_type(grp) = ECP_TYPE_MONTGOMERY /\ mont_curve_get(grp) # NoCurve
    THEN "lock" ELSE "cleanup"

\* R with its coordinates decoded from each other's buffer.
DecodedPoint_Swapped(Rold, x, y) ==
    [X |-> mbedtls_mpi_read_binary_le(Rold.X, y, Len(y)),
     Y |-> mbedtls_mpi_read_binary_le(Rold.Y, x, Len(x)),
     Z |-> mbedtls_mpi_lset(Rold.Z, 1)]

\* Lines 589-591 (and 680-682): R->X and R->Y decoded from the result
\* buffers, R->Z set to 1.
DecodedPoint(Rold, x, y) ==
    [X |-> mbedtls_mpi_read_binary_le(Rold.X, x, Len(x)),
     Y |-> mbedtls_mpi_read_binary_le(Rold.Y, y, Len(y)),
     Z |-> mbedtls_mpi_lset(Rold.Z, 1)]

\* R->Z set to 0 as the mark of a point without Y.
MontgomeryPoint_ZeroZ(Rold, x) ==
    [X |-> mbedtls_mpi_read_binary_le(Rold.X, x, Len(x)),
     Y |-> mbedtls_mpi_lset(Rold.Y, 0),
     Z |-> mbedtls_mpi_lset(Rold.Z, 0)]

\* R->Y left as it was.
MontgomeryPoint_KeepsY(Rold, x) ==
    [X |-> mbedtls_mpi_read_binary_le(Rold.X, x, Len(x)),
     Y |-> Rold.Y,
     Z |-> mbedtls_mpi_lset(Rold.Z, 1)]

\* Lines 613-615: R->X decoded from Qx, R->Y set to 0 and R->Z to 1.
MontgomeryPoint(Rold, x) ==
    [X |-> mbedtls_mpi_read_binary_le(Rold.X, x, Len(x)),
     Y |-> mbedtls_mpi_lset(Rold.Y, 0),
     Z |-> mbedtls_mpi_lset(Rold.Z, 1)]

\* Entry: argument and width checks, ms, Qx and Qy, dispatch, encoding of
\* m and P (X and Y for short Weierstrass, X alone for Montgomery).
ecp_alt_b91_backend_mul(t, a) ==
    LET present == ArgsPresent(a.nulls, {"grp", "R", "m", "P"})
        word_len == GET_WORD_LEN(a.grp.pbits)
        alloc == present /\ WidthOk(word_len)
        br == IF alloc THEN MulBranch(a.grp) ELSE ECP_TYPE_NONE
        stack == StackArray(word_len, a.g)
        b == IF ~alloc THEN NoBufs
             ELSE IF br = ECP_TYPE_SHORT_WEIERSTRASS
             THEN [NoBufs EXCEPT !.ms = Encoded(a.m, stack),
                                 !.Q1x = Encoded(a.P.X, stack),
                                 !.Q1y = Encoded(a.P.Y, stack)]
             ELSE IF br = ECP_TYPE_MONTGOMERY
             THEN [NoBufs EXCEPT !.ms = Encoded(a.m, stack),
                                 !.Q1x = Encoded(a.P.X, stack),
                                 !.Q1y = stack]
             ELSE [NoBufs EXCEPT !.ms = stack, !.Q1x = stack, !.Q1y = stack]
    IN  Enter(t, "mul", a, b, EarlyResult(present),
              IF br # ECP_TYPE_NONE THEN "lock" ELSE IF alloc THEN "cleanup" ELSE "done")

\* mbedtls_ecp_lock(); pke_eccp_point_mul or pke_x25519_point_mul is entered.
mul_lock(t) ==
    LockAndInvoke(t, "mul",
                  IF MulBranch(op[t].grp) = ECP_TYPE_SHORT_WEIERSTRASS THEN "mul" ELSE "x25519",
                  bufs[t])

\* pke_eccp_point_mul( eccp_curve, ms, Qx, Qy, Qx, Qy ) returns st; on
\* success R is decoded from Qx, Qy and Z set to 1.
\* early: mbedtls_ecp_unlock() comes before the decoding.
MulPointMul(t, st, early) ==
    LET b == bufs[t]
        out == pke_eccp_point_mul(b.ms, b.Q1x, b.Q1y)
    IN  /\ pc[t] = "mul"
        /\ Goto(t, "unlock")
        /\ status' = [status EXCEPT ![t] = st]
        /\ IF st = PKE_SUCCESS
           THEN /\ bufs' = [bufs EXCEPT ![t] = [b EXCEPT !.Q1x = out.x, !.Q1y = out.y]]
                /\ R' = [R EXCEPT ![t] = DecodedPoint(R[t], bufs'[t].Q1x, bufs'[t].Q1y)]
                /\ result' = [result EXCEPT ![t] = SUCCESS]
           ELSE /\ result' = [result EXCEPT ![t] = MBEDTLS_ERR_PLATFORM_HW_ACCEL_FAILED]
                /\ UNCHANGED << bufs, R >>
        /\ IF early THEN mbedtls_ecp_unlock(t) ELSE UNCHANGED lock
        /\ UNCHANGED << op, calls, acq, rel, codec, look >>

\* The lock given up before R is decoded.
mul_point_mul_UnlockFirst(t, st) == MulPointMul(t, st, TRUE)

mul_point_mul(t, st) == MulPointMul(t, st, FALSE)

\* pke_x25519_point_mul( mont_curve, ms, Qx, Qx ) returns st; on success
\* R->X is decoded from Qx, R->Y set to 0 and R->Z to 1.
mul_x25519(t, st) ==
    LET b == bufs[t]
        out == pke_x25519_point_mul(b.ms, b.Q1x)
    IN  /\ pc[t] = "x25519"
        /\ Goto(t, "unlock")
        /\ status' = [status EXCEPT ![t] = st]
        /\ IF st = PKE_SUCCESS
           THEN /\ bufs' = [bufs EXCEPT ![t] = [b EXCEPT !.Q1x = out]]
                /\ R' = [R EXCEPT ![t] = MontgomeryPoint(R[t], bufs'[t].Q1x)]
                /\ result' = [result EXCEPT ![t] = SUCCESS]
           ELSE /\ result' = [result EXCEPT ![t] = MBEDTLS_ERR_PLATFORM_HW_ACCEL_FAILED]
                /\ UNCHANGED << bufs, R >>
        /\ UNCHANGED << op, calls, acq, rel, lock, codec, look >>

\* mbedtls_ecp_unlock() of either branch; the Montgomery test of line 601
\* follows the short Weierstrass branch, the memsets the Montgomery branch.
mul_unlock(t) ==
    Unlock(t, "mul",
           IF MulBranch(op[t].grp) = ECP_TYPE_SHORT_WEIERSTRASS
           THEN MulAfterWeierstrass(op[t].grp) ELSE "cleanup")

mul_cleanup(t) == Cleanup(t, "mul")

\* ------------------------------------------------ ecp_alt_b91_backend_muladd
\* if ( ecp_get_type( grp ) == ECP_TYPE_SHORT_WEIERSTRASS ) ... if ( eccp_curve != NULL )
MulAddSupported(grp) ==
    ecp_get_type(grp) = ECP_TYPE_SHORT_WEIERSTRASS /\ eccp_curve_get(grp) # NoCurve

\* The second multiplication fed the first scalar again.
MulAddSecondScalar_Stale(a) == a.m

\* The scalar written to ms before the second pke_eccp_point_mul.
MulAddSecondScalar(a) == a.n

\* Entry: argument and width checks, the five buffers, dispatch, encoding
\* of P into Q1x, Q1y and of Q into Q2x, Q2y; result is preset to
\* MBEDTLS_ERR_PLATFORM_HW_ACCEL_FAILED before the lock.
ecp_alt_b91_backend_muladd(t, a) ==
    LET present == ArgsPresent(a.nulls, {"grp", "R", "m", "P", "n", "Q"})
        word_len == GET_WORD_LEN(a.grp.pbits)
        alloc == present /\ WidthOk(word_len)
        go == alloc /\ MulAddSupported(a.grp)
        stack == StackArray(word_len, a.g)
        b == IF ~alloc THEN NoBufs
             ELSE IF ~go
             THEN [ms |-> stack, Q1x |-> stack, Q1y |-> stack, Q2x |-> stack, Q2y |-> stack]
             ELSE [ms |-> stack,
                   Q1x |-> Encoded(a.P.X, stack), Q1y |-> Encoded(a.P.Y, stack),
                   Q2x |-> Encoded(a.Q.X, stack), Q2y |-> Encoded(a.Q.Y, stack)]
    IN  Enter(t, "muladd", a, b,
              IF go THEN MBEDTLS_ERR_PLATFORM_HW_ACCEL_FAILED ELSE EarlyResult(present),
              IF go THEN "lock" ELSE IF alloc THEN "cleanup" ELSE "done")

\* mbedtls_ecp_lock(); m is encoded into ms; the first pke_eccp_point_mul
\* ( eccp_curve, ms, Q1x, Q1y, Q1x, Q1y ) is entered.
muladd_lock(t) ==
    LockAndInvoke(t, "muladd", "mul1", [bufs[t] EXCEPT !.ms = Encoded(op[t].m, @)])

\* The first pke_eccp_point_mul returns st.  On success Q1 holds the product,
\* n is encoded into ms and the second pke_eccp_point_mul( eccp_curve, ms,
\* Q2x, Q2y, Q2x, Q2y ) is entered; otherwise the loop is left (break).
\* unlocks: the lock is given up after the sub-step; failTo: where a failed
\* sub-step continues.
MulAddFirst(t, st, unlocks, failTo) ==
    LET b == bufs[t]
        out == pke_eccp_point_mul(b.ms, b.Q1x, b.Q1y)
    IN  /\ pc[t] = "mul1"
        /\ status' = [status EXCEPT ![t] = st]
        /\ IF st = PKE_SUCCESS
           THEN /\ Goto(t, "mul2")
                /\ bufs' = [bufs EXCEPT ![t] =
                               [b EXCEPT !.Q1x = out.x, !.Q1y = out.y,
                                         !.ms = Encoded(MulAddSecondScalar(op[t]), b.ms)]]
                /\ calls' = [calls EXCEPT ![t] = @ + 1]
                /\ IF unlocks THEN mbedtls_ecp_unlock(t) ELSE UNCHANGED lock
           ELSE /\ Goto(t, failTo)
                /\ UNCHANGED << bufs, calls, lock >>
        /\ UNCHANGED << op, result, R, acq, rel, codec, look >>

\* The lock taken and released around each engine call instead of the sequence.
muladd_mul1_PerCallLock(t, st) == MulAddFirst(t, st, TRUE, "unlock")

\* A failed first multiplication leaving the function without the unlock.
muladd_mul1_NoUnlockOnFault(t, st) == MulAddFirst(t, st, FALSE, "cleanup")

muladd_mul1(t, st) == MulAddFirst(t, st, FALSE, "unlock")

\* The second pke_eccp_point_mul returns st.  On success Q2 holds the product
\* and pke_eccp_point_add( eccp_curve, Q1x, Q1y, Q2x, Q2y, Q1x, Q1y ) is entered;
\* otherwise the loop is left (break).
\* stops: a failed multiplication ends the sequence.
MulAddSecond(t, st, stops) ==
    LET b == bufs[t]
        out == pke_eccp_point_mul(b.ms, b.Q2x, b.Q2y)
    IN  /\ pc[t] = "mul2"
        /\ status' = [status EXCEPT ![t] = st]
        /\ IF st = PKE_SUCCESS
           THEN bufs' = [bufs EXCEPT ![t] = [b EXCEPT !.Q2x = out.x, !.Q2y = out.y]]
           ELSE UNCHANGED bufs
        /\ IF st = PKE_SUCCESS \/ ~stops
           THEN /\ Goto(t, "add")
                /\ calls' = [calls EXCEPT ![t] = @ + 1]
           ELSE /\ Goto(t, "unlock")
                /\ UNCHANGED calls
        /\ UNCHANGED << op, result, R, acq, rel, lock, codec, look >>

\* The addition attempted after a failed second multiplication.
muladd_mul2_IgnoresFault(t, st) == MulAddSecond(t, st, FALSE)

muladd_mul2(t, st) == MulAddSecond(t, st, TRUE)

\* pke_eccp_point_add returns st.  On success R is decoded from Q1x, Q1y,
\* Z set to 1 and result to 0.
\* guarded: R is written after a successful addition only.
MulAddThird(t, st, guarded) ==
    LET b == bufs[t]
        out == pke_eccp_point_add(b.Q1x, b.Q1y, b.Q2x, b.Q2y)
    IN  /\ pc[t] = "add"
        /\ Goto(t, "unlock")
        /\ status' = [status EXCEPT ![t] = st]
        /\ IF st = PKE_SUCCESS
           THEN /\ bufs' = [bufs EXCEPT ![t] = [b EXCEPT !.Q1x = out.x, !.Q1y = out.y]]
                /\ result' = [result EXCEPT ![t] = SUCCESS]
           ELSE UNCHANGED << bufs, result >>
        /\ IF st = PKE_SUCCESS \/ ~guarded
           THEN R' = [R EXCEPT ![t] = DecodedPoint(R[t], bufs'[t].Q1x, bufs'[t].Q1y)]
           ELSE UNCHANGED R
        /\ UNCHANGED << op, calls, acq, rel, lock, codec, look >>

\* R decoded from Q1x, Q1y whatever the addition returned.
muladd_add_WritesOnFault(t, st) == MulAddThird(t, st, FALSE)

muladd_add(t, st) == MulAddThird(t, st, TRUE)

muladd_unlock(t) == Unlock(t, "muladd", "cleanup")

muladd_cleanup(t) == Cleanup(t, "muladd")

\* ------------------------------------------------------------ word codec runs
\* mbedtls_mpi_write_binary_le applied to the bignum and destination drawn
\* by InitCodec.
CodecEncode ==
    LET w == mbedtls_mpi_write_binary_le(codec.X, codec.buf, codec.buflen)
    IN  /\ codec.pc = "ready"
        /\ codec' = [codec EXCEPT !.pc = "encoded", !.ret = w.ret, !.buf = w.buf]
        /\ UNCHANGED << pc, op, bufs, result, R, status, calls, acq, rel, lock, look >>

\* mbedtls_mpi_read_binary_le applied to the destination bignum and the
\* buffer a successful encoding left.
CodecDecode ==
    /\ codec.pc = "encoded"
    /\ codec.ret = SUCCESS
    /\ codec' = [codec EXCEPT !.pc = "decoded",
                              !.Y = mbedtls_mpi_read_binary_le(codec.dst, codec.buf, codec.buflen)]
    /\ UNCHANGED << pc, op, bufs, result, R, status, calls, acq, rel, lock, look >>

\* ------------------------------------------- classifier and lookup runs
\* look.grp is a group object of the caller; look.type, look.eccp and
\* look.mont are what the last call of ecp_get_type, eccp_curve_get and
\* mont_curve_get returned, look.fresh the functions called since the
\* group object last changed.
LookIdle ==
    [grp |-> NoGroup, type |-> "none", eccp |-> "none", mont |-> "none", fresh |-> {}]

\* ecp_get_type( grp ) is called.
Classify ==
    /\ "type" \notin look.fresh
    /\ look' = [look EXCEPT !.type = ecp_get_type(look.grp), !.fresh = @ \cup {"type"}]
    /\ UNCHANGED << pc, op, bufs, result, R, status, calls, acq, rel, lock, codec >>

\* eccp_curve_get( grp ) is called.
LookupWeierstrass ==
    /\ "eccp" \notin look.fresh
    /\ look' = [look EXCEPT !.eccp = eccp_curve_get(look.grp), !.fresh = @ \cup {"eccp"}]
    /\ UNCHANGED << pc, op, bufs, result, R, status, calls, acq, rel, lock, codec >>

\* mont_curve_get( grp ) is called.
LookupMontgomery ==
    /\ "mont" \notin look.fresh
    /\ look' = [look EXCEPT !.mont = mont_curve_get(look.grp), !.fresh = @ \cup {"mont"}]
    /\ UNCHANGED << pc, op, bufs, result, R, status, calls, acq, rel, lock, codec >>

\* The caller loads another curve into the group object, or frees it; what
\* the functions returned before stays where the caller put it.
GroupChanged(g) ==
    /\ g # look.grp
    /\ look' = [look EXCEPT !.grp = g, !.fresh = {}]
    /\ UNCHANGED << pc, op, bufs, result, R, status, calls, acq, rel, lock, codec >>

\* ----------------------------------------------------------------- inputs
\* What an uninitialised stack byte may hold.
StackBytes == {0, 165}

\* What the engine may answer.
VerifyStatuses == {PKE_SUCCESS, PKE_NOT_ON_CURVE, PKE_FAULT}
MulStatuses == {PKE_SUCCESS, PKE_FAULT}

Gen2 == [X |-> << 1 >>, Y |-> << 2 >>, Z |-> << 1 >>]
Gen1 == [X |-> << 9 >>, Y |-> << >>, Z |-> << 1 >>]

SECP192R1 == [id |-> "MBEDTLS_ECP_DP_SECP192R1", pbits |-> 192, G |-> Gen2]
CURVE25519 == [id |-> "MBEDTLS_ECP_DP_CURVE25519", pbits |-> 255, G |-> Gen1]
SECP384R1 == [id |-> "MBEDTLS_ECP_DP_SECP384R1", pbits |-> 384, G |-> Gen2]
CustomWeierstrass == [id |-> "MBEDTLS_ECP_DP_NONE", pbits |-> 192, G |-> Gen2]
CustomMontgomery == [id |-> "MBEDTLS_ECP_DP_NONE", pbits |-> 255, G |-> Gen1]

Groups == {SECP192R1, CURVE25519, SECP384R1, CustomWeierstrass, CustomMontgomery, NoGroup}

\* Scalars: short, of the exact width of a 192-bit curve, one limb longer
\* with a zero top limb, one limb longer with a nonzero top limb, and wider
\* than any operand of the engine.
Scalars ==
    { << 3 >>,
      << 2, 0, 0, 0, 0, 7 >>,
      << 5, 0, 0, 0, 0, 0, 0 >>,
      << 1, 0, 0, 0, 0, 0, 2 >>,
      << 7, 0, 0, 0, 0, 0, 0, 0, 256 >> }

Points ==
    { [X |-> << 4 >>, Y |-> << 6, 1 >>, Z |-> << 1 >>],
      [X |-> << 1, 0, 0, 0, 0, 0, 0, 0, 9 >>, Y |-> << 2 >>, Z |-> << 1 >>],
      [X |-> << 9 >>, Y |-> << >>, Z |-> << 1 >>] }

\* What the output point may hold before the call.
OldPoints == { NoPoint, [X |-> << 8, 8, 8, 8, 8, 8, 8 >>, Y |-> << 8 >>, Z |-> << 5, 5 >>] }

NullSets(required) == {{}} \cup {{x} : x \in required}

CheckPubkeyArgs ==
    {[NoArgs EXCEPT !.grp = g, !.P = p, !.nulls = z, !.g = s] :
        g \in Groups, p \in Points, z \in NullSets({"grp", "P"}), s \in StackBytes}

MulArgs ==
    {[NoArgs EXCEPT !.grp = x[1], !.m = x[2], !.P = x[3], !.R0 = x[4], !.nulls = x[5], !.g = x[6]] :
        x \in Groups \X Scalars \X Points \X OldPoints
              \X NullSets({"grp", "R", "m", "P"}) \X StackBytes}

MulAddArgs ==
    {[grp |-> x[1], m |-> x[2], P |-> x[3], n |-> x[4], Q |-> x[5], R0 |-> x[6],
      nulls |-> x[7], g |-> x[8], fn |-> "none"] :
        x \in Groups \X Scalars \X Points \X Scalars \X Points \X OldPoints
              \X NullSets({"grp", "R", "m", "P", "n", "Q"}) \X StackBytes}

\* The calls of the concurrent specification: the two supported families,
\* operands that fit.
ConcGroups == {SECP192R1, CURVE25519}

ConcArgs ==
    {[NoArgs EXCEPT !.grp = g, !.m = << 3 >>, !.P = [X |-> << 4 >>, Y |-> << 6, 1 >>, Z |-> << 1 >>],
                    !.n = << 2, 0, 0, 0, 0, 7 >>, !.Q = [X |-> << 5 >>, Y |-> << 1 >>, Z |-> << 1 >>],
                    !.g = 165] : g \in ConcGroups}

\* Bignums and destinations of the codec runs.
LimbVals == {0, 1, 513, 50331648}

CodecMpis == UNION {[1..k -> LimbVals] : k \in 0..MaxLimbs}

\* What the destination bignum of a decoding may hold before.
CodecDests == { << >>, << 7 >>, << 1, 513 >>, << 5, 5, 5 >> }

CodecInputs ==
    {[pc |-> "ready", X |-> x[1], buflen |-> x[2], buf |-> [i \in 1..x[2] |-> x[3]],
      ret |-> SUCCESS, dst |-> x[4], Y |-> x[4]] :
        x \in CodecMpis \X (0..MaxBufLen) \X StackBytes \X CodecDests}

\* Group objects of the classifier and lookup runs: every shape of the
\* generator with ids of both registries and of neither.
LookIds ==
    { "MBEDTLS_ECP_DP_NONE", "MBEDTLS_ECP_DP_SECP192R1", "MBEDTLS_ECP_DP_SECP256K1",
      "MBEDTLS_ECP_DP_CURVE25519", "MBEDTLS_ECP_DP_SECP384R1" }

LookGroups ==
    {[id |-> x[1], pbits |-> 0, G |-> [X |-> x[2], Y |-> x[3], Z |-> << 1 >>]] :
        x \in LookIds \X {<< >>, << 4 >>} \X {<< >>, << 6, 1 >>}}

LookInputs == {[LookIdle EXCEPT !.grp = g] : g \in LookGroups}

\* --------------------------------------------------------- specifications
ThreadsIdle ==
    /\ pc = [t \in Threads |-> "idle"]
    /\ op = [t \in Threads |-> NoArgs]
    /\ bufs = [t \in Threads |-> NoBufs]
    /\ result = [t \in Threads |-> "none"]
    /\ R = [t \in Threads |-> NoPoint]
    /\ status = [t \in Threads |-> "none"]
    /\ calls = [t \in Threads |-> 0]
    /\ acq = [t \in Threads |-> 0]
    /\ rel = [t \in Threads |-> 0]
    /\ lock = 0

Init == ThreadsIdle /\ codec = CodecIdle /\ look = LookIdle

InitCodec == ThreadsIdle /\ codec \in CodecInputs /\ look = LookIdle

InitLookup == ThreadsIdle /\ codec = CodecIdle /\ look \in LookInputs

\* What a thread does between the entry of a call and its return.
Steps(t) ==
    \/ check_pubkey_lock(t)
    \/ \E st \in VerifyStatuses : check_pubkey_verify(t, st)
    \/ check_pubkey_unlock(t)
    \/ check_pubkey_cleanup(t)
    \/ mul_lock(t)
    \/ \E st \in MulStatuses : mul_point_mul(t, st)
    \/ \E st \in MulStatuses : mul_x25519(t, st)
    \/ mul_unlock(t)
    \/ mul_cleanup(t)
    \/ muladd_lock(t)
    \/ \E st \in MulStatuses : muladd_mul1(t, st)
    \/ \E st \in MulStatuses : muladd_mul2(t, st)
    \/ \E st \in MulStatuses : muladd_add(t, st)
    \/ muladd_unlock(t)
    \/ muladd_cleanup(t)
    \/ Return(t)

\* Concurrent callers.
Next ==
    \E t \in Threads :
        \/ pc[t] = "idle" /\ \E a \in ConcArgs : ecp_alt_b91_backend_check_pubkey(t, a)
        \/ pc[t] = "idle" /\ \E a \in ConcArgs : ecp_alt_b91_backend_mul(t, a)
        \/ pc[t] = "idle" /\ \E a \in ConcArgs : ecp_alt_b91_backend_muladd(t, a)
        \/ Steps(t)

Spec == Init /\ [][Next]_vars

\* mbedtls_ecp_lock() returning in thread t.
Acquire(t) == check_pubkey_lock(t) \/ mul_lock(t) \/ muladd_lock(t)

\* Concurrent callers under fair scheduling: a thread that can take a step
\* of its call eventually takes one (every engine call returns), and a
\* thread that finds the lock free again and again eventually gets it.
\* Whether a thread calls again is left open.
SpecFair ==
    Init /\ [][Next]_vars /\ \A t \in Threads : WF_vars(Steps(t)) /\ SF_vars(Acquire(t))

\* One caller, every kind of argument.
NextSeq ==
    \/ pc[1] = "idle" /\ \E a \in CheckPubkeyArgs : ecp_alt_b91_backend_check_pubkey(1, a)
    \/ pc[1] = "idle" /\ \E a \in MulArgs : ecp_alt_b91_backend_mul(1, a)
    \/ pc[1] = "idle" /\ \E a \in MulAddArgs : ecp_alt_b91_backend_muladd(1, a)
    \/ Steps(1)

SpecSeq == Init /\ [][NextSeq]_vars

\* The codec alone.
NextCodec == CodecEncode \/ CodecDecode

SpecCodec == InitCodec /\ [][NextCodec]_vars

\* The classifier and the lookups alone, on a group object that changes.
NextLookup ==
    \/ Classify
    \/ LookupWeierstrass
    \/ LookupMontgomery
    \/ \E g \in LookGroups : GroupChanged(g)

SpecLookup == InitLookup /\ [][NextLookup]_vars

\* ------------------------------------------------- vocabulary of the claims
\* Byte i (from 0) of the value of bignum X, zero beyond its limbs.
LimbBytes(v) == << v % 256, (v \div 256) % 256, (v \div 65536) % 256, v \div 16777216 >>

ValueByte(X, i) == IF i < Len(X) * ciL THEN LimbBytes(X[(i \div ciL) + 1])[(i % ciL) + 1] ELSE 0

\* The little-endian image of X in len bytes.
LE(X, len) == [i \in 1..len |-> ValueByte(X, i - 1)]

\* X has a nonzero byte at an index >= len.
Overflows(X, len) == \E i \in len..(Len(X) * ciL - 1) : ValueByte(X, i) # 0

\* The value of bignum X is the little-endian number in buf.
HoldsValue(X, buf) ==
    \A i \in 0..(Len(X) * ciL + Len(buf)) :
        ValueByte(X, i) = (IF i < Len(buf) THEN buf[i + 1] ELSE 0)

AllZero(buf) == \A i \in 1..Len(buf) : buf[i] = 0

Required(fn) ==
    IF fn = "check_pubkey" THEN {"grp", "P"}
    ELSE IF fn = "mul" THEN {"grp", "R", "m", "P"}
    ELSE {"grp", "R", "m", "P", "n", "Q"}

Active(t) == pc[t] # "idle"

ArgMissing(t) == op[t].nulls \cap Required(op[t].fn) # {}

WordLen(t) == (op[t].grp.pbits + 31) \div 32

BufLen(t) == WordLen(t) * WordBytes

TooWide(t) == WordLen(t) > PKE_OPERAND_MAX_WORD_LEN

InTable(table, id) == \E i \in 1..Len(table) : table[i] = id

HasX(grp) == grp.G.X # << >>

HasY(grp) == grp.G.Y # << >>

IsWeierstrass(grp) == HasX(grp) /\ HasY(grp)

IsMontgomery(grp) == HasX(grp) /\ ~HasY(grp)

\* The curve id is not in the registry of the group's family.
Unregistered(grp) ==
    \/ IsWeierstrass(grp) /\ ~InTable(eccp_curve_linking, grp.id)
    \/ IsMontgomery(grp) /\ ~InTable(mont_curve_linking, grp.id)

Untouched(t) == acq[t] = 0 /\ calls[t] = 0 /\ pc[t] \in {"cleanup", "done"}

\* Thread t is between the first and the last engine invocation of a muladd.
MidSequence(t) == op[t].fn = "muladd" /\ pc[t] \in {"mul1", "mul2", "add"}

\* ------------------------------------------------------------------ claims
\* C1: while one thread is between the first and the last engine sub-step of
\* a double_scalar_multiply_add call, no step is an engine invocation of
\* another thread.
C1_MulAddNotInterleaved ==
    [][\A t \in Threads : \A u \in Threads \ {t} :
          MidSequence(t) /\ MidSequence(t)' => calls'[u] <= calls[u]]_vars

\* C1 witness: one thread is past the first sub-step of its muladd while
\* another thread, which also wants the engine for a muladd, waits for the lock.
C1_Witness ==
    \E t \in Threads : \E u \in Threads \ {t} :
        /\ op[t].fn = "muladd" /\ pc[t] = "mul2"
        /\ op[u].fn = "muladd" /\ pc[u] = "lock"

\* C2: a thread is inside an engine call only while it holds the accelerator
\* lock, and at most one thread is inside the engine.
C2_EngineUnderLock ==
    /\ \A t \in Threads : pc[t] \in EnginePcs => lock = t
    /\ Cardinality({t \in Threads : pc[t] \in EnginePcs}) <= 1

\* C2 witness: one thread is inside the X-only multiplication while another
\* has encoded its operands and waits for the lock.
C2_Witness ==
    \E t \in Threads : \E u \in Threads \ {t} : pc[t] = "x25519" /\ pc[u] = "lock"

\* C3: a call that took the lock has released it exactly once when it
\* returns, on every path; the lock is held only by a thread inside its
\* locked region, so it is free whenever no call is in progress.
C3_LockReleasedOnce ==
    /\ \A t \in Threads : pc[t] = "done" => acq[t] <= 1 /\ rel[t] = acq[t]
    /\ \A t \in Threads : lock = t => pc[t] \in EnginePcs \cup {"unlock"}
    /\ (\A t \in Threads : pc[t] \in {"idle", "done"}) => lock = 0

\* C3 witness: a muladd whose first engine step faulted has returned, having
\* taken and released the lock.
C3_Witness ==
    \E t \in Threads :
        /\ pc[t] = "done" /\ op[t].fn = "muladd"
        /\ status[t] = PKE_FAULT /\ calls[t] = 1
        /\ acq[t] = 1 /\ rel[t] = 1

\* C4 (as claimed): verify_public_key maps an engine success to 0, "not on
\* the curve" to InvalidKey and an engine fault to UnsupportedFeature.
C4_VerifyOutcome ==
    \A t \in Threads :
        op[t].fn = "check_pubkey" /\ status[t] # "none" =>
            result[t] = (IF status[t] = PKE_SUCCESS THEN SUCCESS
                         ELSE IF status[t] = PKE_NOT_ON_CURVE THEN MBEDTLS_ERR_ECP_INVALID_KEY
                         ELSE MBEDTLS_ERR_PLATFORM_FEATURE_UNSUPPORTED)

\* The operands the call of thread t has encoded so far.
EncodedOperands(t) ==
    LET a == op[t]
        reached == pc[t] \in EnginePcs \cup {"lock", "unlock"} \/ acq[t] > 0
    IN  IF ~reached THEN {}
        ELSE IF a.fn = "check_pubkey" THEN {a.P.X, a.P.Y}
        ELSE IF a.fn = "mul" THEN
            (IF IsWeierstrass(a.grp) THEN {a.m, a.P.X, a.P.Y} ELSE {a.m, a.P.X})
        ELSE {a.P.X, a.P.Y, a.Q.X, a.Q.Y}
             \cup (IF acq[t] > 0 THEN {a.m} ELSE {})
             \cup (IF calls[t] > 1 THEN {a.n} ELSE {})

\* C5 (as claimed): when the encoding of an operand fails with
\* BufferTooSmall the engine is not invoked with that buffer and the call
\* returns BufferTooSmall.
C5_EncodeFailureReturned ==
    \A t \in Threads :
        (\E X \in EncodedOperands(t) : Overflows(X, BufLen(t))) =>
            /\ pc[t] \notin EnginePcs
            /\ pc[t] = "done" => result[t] = MBEDTLS_ERR_MPI_BUFFER_TOO_SMALL

\* C6: a missing argument gives InvalidInput; otherwise a curve wider than
\* the engine or an id absent from the registry of its family gives
\* UnsupportedFeature; in each case neither the lock nor the engine is touched.
C6_Preconditions ==
    \A t \in Threads : Active(t) =>
        /\ ArgMissing(t) =>
              Untouched(t) /\ result[t] = MBEDTLS_ERR_ECP_BAD_INPUT_DATA
        /\ ~ArgMissing(t) /\ (TooWide(t) \/ Unregistered(op[t].grp)) =>
              Untouched(t) /\ result[t] = MBEDTLS_ERR_PLATFORM_FEATURE_UNSUPPORTED

\* C6 witness: a scalar multiplication without output point has returned.
C6_Witness ==
    /\ pc[1] = "done" /\ op[1].fn = "mul" /\ op[1].nulls = {"R"}
    /\ op[1].grp = SECP192R1
    /\ result[1] = MBEDTLS_ERR_ECP_BAD_INPUT_DATA

\* C7: verify_public_key and double_scalar_multiply_add on a Montgomery
\* group (generator with X, without Y), with all arguments and a width in
\* range, return UnsupportedFeature without lock or engine.
C7_MontgomeryUnsupported ==
    \A t \in Threads :
        /\ Active(t) /\ op[t].fn \in {"check_pubkey", "muladd"}
        /\ ~ArgMissing(t) /\ ~TooWide(t) /\ IsMontgomery(op[t].grp)
        => Untouched(t) /\ result[t] = MBEDTLS_ERR_PLATFORM_FEATURE_UNSUPPORTED

\* C7 witness: verify_public_key on Curve25519 has returned.
C7_Witness ==
    /\ pc[1] = "done" /\ op[1].fn = "check_pubkey" /\ op[1].nulls = {}
    /\ op[1].grp = CURVE25519
    /\ result[1] = MBEDTLS_ERR_PLATFORM_FEATURE_UNSUPPORTED

\* C8: when a call returns, every scratch buffer it allocated holds zeros only.
C8_ScratchZeroed ==
    \A t \in Threads : pc[t] = "done" =>
        /\ AllZero(bufs[t].ms)
        /\ AllZero(bufs[t].Q1x) /\ AllZero(bufs[t].Q1y)
        /\ AllZero(bufs[t].Q2x) /\ AllZero(bufs[t].Q2y)

\* C8 witness: a muladd whose engine faulted has returned; its buffers were
\* allocated on a stack holding nonzero bytes.
C8_Witness ==
    /\ pc[1] = "done" /\ op[1].fn = "muladd" /\ status[1] = PKE_FAULT
    /\ op[1].g # 0 /\ Len(bufs[1].ms) > 0

\* scalar_multiply( grp, k, P ) as the engine answers it, read back as a point.
ScalarMultiply(k, P, len) ==
    LET q == pke_eccp_point_mul(LE(k, len), LE(P.X, len), LE(P.Y, len))
    IN  [X |-> mbedtls_mpi_read_binary_le(<< >>, q.x, len),
         Y |-> mbedtls_mpi_read_binary_le(<< >>, q.y, len)]

\* C9: a successful double_scalar_multiply_add whose operands fit leaves in R
\* the engine's sum of the engine's products m*P and n*Q, with Z = 1: the sum
\* of the points scalar_multiply returns for (m, P) and (n, Q).
C9_MulAddResult ==
    \A t \in Threads :
        LET a == op[t]
            len == BufLen(t)
            q1 == pke_eccp_point_mul(LE(a.m, len), LE(a.P.X, len), LE(a.P.Y, len))
            q2 == pke_eccp_point_mul(LE(a.n, len), LE(a.Q.X, len), LE(a.Q.Y, len))
            sum == pke_eccp_point_add(q1.x, q1.y, q2.x, q2.y)
            s1 == ScalarMultiply(a.m, a.P, len)
            s2 == ScalarMultiply(a.n, a.Q, len)
            sum2 == pke_eccp_point_add(LE(s1.X, len), LE(s1.Y, len), LE(s2.X, len), LE(s2.Y, len))
        IN  /\ a.fn = "muladd" /\ pc[t] = "done" /\ result[t] = SUCCESS
            /\ \A X \in {a.m, a.n, a.P.X, a.P.Y, a.Q.X, a.Q.Y} : ~Overflows(X, len)
            => /\ HoldsValue(R[t].X, sum.x) /\ HoldsValue(R[t].Y, sum.y)
               /\ HoldsValue(R[t].Z, << 1 >>)
               /\ sum2 = sum

\* C9 witness: a muladd with two different scalars that fit has succeeded.
C9_Witness ==
    /\ pc[1] = "done" /\ op[1].fn = "muladd" /\ result[1] = SUCCESS
    /\ op[1].m = << 3 >> /\ op[1].n = << 5, 0, 0, 0, 0, 0, 0 >>
    /\ \A X \in {op[1].P.X, op[1].P.Y, op[1].Q.X, op[1].Q.Y} : ~Overflows(X, BufLen(1))

\* C10: encode_le fails with BufferTooSmall exactly when the value has a
\* nonzero byte at an index >= the destination length; otherwise the first
\* min(stored, buflen) bytes are the value's little-endian bytes and every
\* other destination byte is zero.
C10_EncodeLe ==
    codec.pc = "encoded" =>
        /\ codec.ret = MBEDTLS_ERR_MPI_BUFFER_TOO_SMALL <=> Overflows(codec.X, codec.buflen)
        /\ codec.ret # MBEDTLS_ERR_MPI_BUFFER_TOO_SMALL =>
              /\ codec.ret = SUCCESS
              /\ Len(codec.buf) = codec.buflen
              /\ \A i \in 0..(codec.buflen - 1) :
                    codec.buf[i + 1] =
                        (IF i < Len(codec.X) * ciL THEN ValueByte(codec.X, i) ELSE 0)

\* C10 witness: a value stored in more bytes than the destination has, all
\* excess bytes zero, was encoded into a destination that held other bytes.
C10_Witness ==
    /\ codec.pc = "encoded" /\ codec.ret = SUCCESS
    /\ 0 < codec.buflen /\ codec.buflen < Len(codec.X) * ciL
    /\ codec.X[1] = 513

\* The values of bignums X and Y are equal.
SameValue(X, Y) == \A i \in 0..(Len(X) * ciL + Len(Y) * ciL) : ValueByte(X, i) = ValueByte(Y, i)

\* C11: decoding the buffer a successful encoding of v left gives a bignum
\* of value v, whatever the destination bignum held and however many limbs
\* it had.
C11_RoundTrip ==
    codec.pc = "decoded" => SameValue(codec.Y, codec.X)

\* C11 witness: a nonzero value went through a buffer into a destination
\* bignum that held three nonzero limbs.
C11_Witness ==
    /\ codec.pc = "decoded" /\ codec.dst = << 5, 5, 5 >>
    /\ Len(codec.X) = 2 /\ codec.X[1] = 513 /\ codec.X[2] = 1

\* C18 (as claimed): decode_le leaves the destination with the minimal word
\* count for the decoded value (no zero top limb beyond the first) and
\* nothing of its previous contents.
C18_DecodeMinimal ==
    codec.pc = "decoded" =>
        /\ Len(codec.Y) <= 1 \/ codec.Y[Len(codec.Y)] # 0
        /\ HoldsValue(codec.Y, codec.buf)

\* C18 (amended): decode_le leaves the destination with exactly
\* ceil(buflen / ciL) limbs (one limb for an empty buffer), whatever the
\* decoded value, and its value is the number in the buffer: nothing of its
\* previous contents survives.
C18_DecodeExactLimbs ==
    codec.pc = "decoded" =>
        /\ Len(codec.Y) = (IF codec.buflen = 0 THEN 1 ELSE (codec.buflen + ciL - 1) \div ciL)
        /\ HoldsValue(codec.Y, codec.buf)

\* C18 witness: the destination already had the limb count of the buffer and
\* held nonzero limbs, so it was cleared in place, not reallocated.
C18_Witness ==
    /\ codec.pc = "decoded" /\ codec.dst = << 1, 513 >>
    /\ Len(codec.Y) = 2 /\ codec.Y # codec.dst

\* Thread t is in a mul on a registered group of the given family, with all
\* arguments and a width in range.
SupportedMul(t, table) ==
    /\ op[t].fn = "mul" /\ ~ArgMissing(t) /\ ~TooWide(t)
    /\ InTable(table, op[t].grp.id)

\* C12: scalar_multiply on a registered short Weierstrass group: after a
\* successful engine multiplication the result is success, R.X and R.Y hold
\* the numbers in the engine's output buffers (for operands that fit, the
\* engine's product of the encoded m and P) and R.Z holds 1; after a failed
\* one the result is HardwareAccelFailed.
C12_WeierstrassMul ==
    \A t \in Threads :
        LET a == op[t]
            len == BufLen(t)
            q == pke_eccp_point_mul(LE(a.m, len), LE(a.P.X, len), LE(a.P.Y, len))
        IN  /\ SupportedMul(t, eccp_curve_linking) /\ IsWeierstrass(a.grp)
            /\ status[t] # "none"
            => IF status[t] = PKE_SUCCESS
               THEN /\ result[t] = SUCCESS
                    /\ HoldsValue(R[t].Z, << 1 >>)
                    /\ pc[t] \in {"unlock", "cleanup"} =>
                          /\ HoldsValue(R[t].X, bufs[t].Q1x)
                          /\ HoldsValue(R[t].Y, bufs[t].Q1y)
                    /\ (\A X \in {a.m, a.P.X, a.P.Y} : ~Overflows(X, len)) =>
                          HoldsValue(R[t].X, q.x) /\ HoldsValue(R[t].Y, q.y)
               ELSE result[t] = MBEDTLS_ERR_PLATFORM_HW_ACCEL_FAILED

\* C12 witness: a multiplication on secp192r1 with operands that fit has
\* succeeded into a point that held other limbs.
C12_Witness ==
    /\ pc[1] = "done" /\ op[1].fn = "mul" /\ op[1].grp = SECP192R1
    /\ result[1] = SUCCESS /\ op[1].R0 # NoPoint
    /\ op[1].m = << 2, 0, 0, 0, 0, 7 >> /\ op[1].P.X = << 4 >>

\* C13: scalar_multiply on a registered Montgomery group encodes m and P.X
\* only (the Y buffer keeps what the stack held), invokes the X-only
\* multiplication and nothing else; after a success the result is success,
\* R.X holds the engine's output, R.Y holds 0 and R.Z holds 1; after a
\* failure the result is HardwareAccelFailed.
C13_MontgomeryMul ==
    \A t \in Threads :
        LET a == op[t]
            len == BufLen(t)
            fit == ~Overflows(a.m, len) /\ ~Overflows(a.P.X, len)
            q == pke_x25519_point_mul(LE(a.m, len), LE(a.P.X, len))
        IN  SupportedMul(t, mont_curve_linking) /\ IsMontgomery(a.grp)
            => /\ pc[t] \notin {"mul", "mul1", "mul2", "add", "verify"}
               /\ pc[t] \in {"lock", "x25519"} =>
                     /\ \A i \in 1..Len(bufs[t].Q1y) : bufs[t].Q1y[i] = a.g
                     /\ fit => bufs[t].ms = LE(a.m, len) /\ bufs[t].Q1x = LE(a.P.X, len)
               /\ status[t] = PKE_SUCCESS =>
                     /\ result[t] = SUCCESS
                     /\ fit => HoldsValue(R[t].X, q)
                     /\ pc[t] \in {"unlock", "cleanup"} => HoldsValue(R[t].X, bufs[t].Q1x)
                     /\ HoldsValue(R[t].Y, << 0 >>)
                     /\ HoldsValue(R[t].Z, << 1 >>)
               /\ status[t] \notin {"none", PKE_SUCCESS} =>
                     result[t] = MBEDTLS_ERR_PLATFORM_HW_ACCEL_FAILED

\* C13 witness: a multiplication on Curve25519 has succeeded into a point
\* whose Y held a nonzero limb.
C13_Witness ==
    /\ pc[1] = "done" /\ op[1].fn = "mul" /\ op[1].grp = CURVE25519
    /\ result[1] = SUCCESS /\ op[1].R0 # NoPoint /\ op[1].g # 0
    /\ op[1].m = << 3 >> /\ op[1].P.X = << 9 >>

\* C14: scalar_multiply with all arguments and a width in range returns
\* UnsupportedFeature, without lock or engine, when the generator of the
\* group has no X or the group id is not in the registry of its family.
C14_MulUnsupported ==
    \A t \in Threads :
        /\ Active(t) /\ op[t].fn = "mul" /\ ~ArgMissing(t) /\ ~TooWide(t)
        /\ ~HasX(op[t].grp) \/ Unregistered(op[t].grp)
        => Untouched(t) /\ result[t] = MBEDTLS_ERR_PLATFORM_FEATURE_UNSUPPORTED

\* C14 witness: a multiplication on a Montgomery group whose id is in no
\* registry has returned.
C14_Witness ==
    /\ pc[1] = "done" /\ op[1].fn = "mul" /\ op[1].nulls = {}
    /\ op[1].grp = CustomMontgomery
    /\ result[1] = MBEDTLS_ERR_PLATFORM_FEATURE_UNSUPPORTED

\* C14 witness of the other case: the group has no generator at all.
C14_WitnessNone ==
    /\ pc[1] = "done" /\ op[1].fn = "mul" /\ op[1].nulls = {}
    /\ op[1].grp = NoGroup
    /\ result[1] = MBEDTLS_ERR_PLATFORM_FEATURE_UNSUPPORTED

\* C16: in double_scalar_multiply_add the engine is entered for the first
\* multiplication (on P), then the second (on Q), then the addition, as its
\* first, second and third call; once a step has failed the call is past
\* its last engine invocation, R is as the caller passed it and the result
\* is HardwareAccelFailed.
C16_MulAddSequence ==
    \A t \in Threads :
        LET a == op[t]
            len == BufLen(t)
        IN  a.fn = "muladd" =>
            /\ pc[t] = "mul1" =>
                  /\ calls[t] = 1
                  /\ ~Overflows(a.m, len) => bufs[t].ms = LE(a.m, len)
                  /\ ~Overflows(a.P.X, len) => bufs[t].Q1x = LE(a.P.X, len)
            /\ pc[t] = "mul2" =>
                  /\ calls[t] = 2
                  /\ ~Overflows(a.Q.X, len) => bufs[t].Q2x = LE(a.Q.X, len)
            /\ pc[t] = "add" => calls[t] = 3
            /\ status[t] \notin {"none", PKE_SUCCESS} =>
                  /\ pc[t] \in {"unlock", "cleanup", "done"}
                  /\ R[t] = a.R0
                  /\ result[t] = MBEDTLS_ERR_PLATFORM_HW_ACCEL_FAILED

\* C16 witness: the second multiplication failed; the call has returned
\* after two engine invocations.
C16_Witness ==
    /\ pc[1] = "done" /\ op[1].fn = "muladd" /\ status[1] = PKE_FAULT
    /\ calls[1] = 2 /\ op[1].R0 # NoPoint

\* C17 (as claimed): whenever the second multiplication of
\* double_scalar_multiply_add is entered, the scalar buffer holds the
\* number n, for every n.
C17_SecondScalarEncoded ==
    \A t \in Threads :
        op[t].fn = "muladd" /\ pc[t] = "mul2" => HoldsValue(op[t].n, bufs[t].ms)

\* C19: in scalar_multiply and double_scalar_multiply_add every step that
\* writes R is taken by the holder of the lock, who still holds it after the
\* step and has then only the release before it, with X, Y and Z written.
C19_DecodedUnderLock ==
    [][\A t \in Threads :
          /\ op[t].fn \in {"mul", "muladd"} /\ pc[t] \notin {"idle", "done"}
          /\ R'[t] # R[t]
          => /\ lock = t /\ lock' = t /\ pc'[t] = "unlock"
             /\ R'[t].X # << >> /\ R'[t].Y # << >> /\ R'[t].Z[1] = 1]_vars

\* C19 witness: a thread has decoded the sum of a muladd and not yet released
\* the lock another thread waits for.
C19_Witness ==
    \E t \in Threads : \E u \in Threads \ {t} :
        /\ op[t].fn = "muladd" /\ pc[t] = "unlock" /\ result[t] = SUCCESS
        /\ lock = t /\ R[t] # NoPoint /\ pc[u] = "lock"

\* C20: a call of verify_public_key or scalar_multiply makes at most one
\* engine invocation and takes the lock at most once, a call of
\* double_scalar_multiply_add at most three, whatever the engine answers.
C20_NoRetry ==
    \A t \in Threads :
        /\ calls[t] <= (IF op[t].fn = "muladd" THEN 3 ELSE 1)
        /\ acq[t] <= 1
        /\ pc[t] = "lock" => calls[t] = 0

\* C20 witness: a multiplication on a short Weierstrass group has returned
\* after one failed engine invocation.
C20_Witness ==
    /\ pc[1] = "done" /\ op[1].fn = "mul" /\ op[1].grp = SECP192R1
    /\ status[1] = PKE_FAULT /\ calls[1] = 1

\* C15: under fair scheduling, with every engine call returning, every call
\* of a public function that was entered returns, whatever the other
\* threads do: no caller waits for the lock forever.
C15_EveryCallReturns ==
    \A t \in Threads : (pc[t] # "idle") ~> (pc[t] = "done")

\* C15 witness: one thread waits for the lock while another, past its engine
\* call, still holds it.
C15_Witness ==
    \E t \in Threads : \E u \in Threads \ {t} :
        pc[u] = "lock" /\ lock = t /\ pc[t] = "unlock" /\ op[t].fn = "check_pubkey"

\* C21: what ecp_get_type returned for the group object as it is now is
\* None when the generator has no X (whatever its Y), Montgomery when it has
\* an X and no Y, ShortWeierstrass otherwise, whatever the function returned
\* for the object before it changed.
C21_Classify ==
    "type" \in look.fresh =>
        look.type = (IF ~HasX(look.grp) THEN ECP_TYPE_NONE
                     ELSE IF ~HasY(look.grp) THEN ECP_TYPE_MONTGOMERY
                     ELSE ECP_TYPE_SHORT_WEIERSTRASS)

\* C21 witness: a generator with a Y and no X has been classified after the
\* group object changed (a lookup made for its earlier state is still held).
C21_Witness ==
    /\ "type" \in look.fresh /\ ~HasX(look.grp) /\ HasY(look.grp)
    /\ look.type = ECP_TYPE_NONE
    /\ "eccp" \notin look.fresh /\ look.eccp # "none"

\* C22: no id is in both registries; for the group object as it is now
\* eccp_curve_get and mont_curve_get never both return a curve, and each
\* returns NULL exactly when the id is not in its table and the curve of
\* the id otherwise.
C22_RegistriesDisjoint ==
    /\ \A i \in 1..Len(eccp_curve_linking) : ~InTable(mont_curve_linking, eccp_curve_linking[i])
    /\ "eccp" \in look.fresh =>
          look.eccp = (IF InTable(eccp_curve_linking, look.grp.id) THEN look.grp.id ELSE NoCurve)
    /\ "mont" \in look.fresh =>
          look.mont = (IF InTable(mont_curve_linking, look.grp.id) THEN look.grp.id ELSE NoCurve)
    /\ {"eccp", "mont"} \subseteq look.fresh => look.eccp = NoCurve \/ look.mont = NoCurve

\* C22 witness: both lookups have run for an id of the short Weierstrass
\* registry; the Montgomery lookup returned NULL.
C22_Witness ==
    /\ {"eccp", "mont"} \subseteq look.fresh
    /\ look.grp.id = "MBEDTLS_ECP_DP_SECP256K1"
    /\ look.eccp = "MBEDTLS_ECP_DP_SECP256K1" /\ look.mont = NoCurve

\* C23 (as claimed): after a successful scalar_multiply R.Z holds 0 on a
\* Montgomery group and 1 on a short Weierstrass group.
C23_MontgomeryZZero ==
    \A t \in Threads :
        op[t].fn = "mul" /\ pc[t] = "done" /\ result[t] = SUCCESS =>
            HoldsValue(R[t].Z, IF IsMontgomery(op[t].grp) THEN << 0 >> ELSE << 1 >>)

\* C23 (amended): after a successful scalar_multiply R.Z holds 1 on a group
\* of either family; on a Montgomery group it is R.Y that holds 0.
C23_ResultZOne ==
    \A t \in Threads :
        op[t].fn = "mul" /\ pc[t] = "done" /\ result[t] = SUCCESS =>
            /\ HoldsValue(R[t].Z, << 1 >>)
            /\ IsMontgomery(op[t].grp) => HoldsValue(R[t].Y, << 0 >>)

\* C23 witness: a multiplication on Curve25519 has succeeded into a point
\* whose Z held two limbs other than 1.
C23_Witness ==
    /\ pc[1] = "done" /\ op[1].fn = "mul" /\ op[1].grp = CURVE25519
    /\ result[1] = SUCCESS /\ op[1].R0.Z = << 5, 5 >>
    /\ op[1].m = << 2, 0, 0, 0, 0, 7 >>

\* C24: no step of a call changes the arguments of the call (the group and
\* the point of verify_public_key among them), and when scalar_multiply or
\* double_scalar_multiply_add returns another result than success R is as
\* the caller passed it.
C24_FailureLeavesR ==
    [][\A t \in Threads :
          /\ pc[t] # "idle" /\ pc'[t] # "idle" => op'[t] = op[t]
          /\ pc'[t] = "done" /\ result'[t] # SUCCESS => R'[t] = op'[t].R0]_vars

\* C24 witness: a double_scalar_multiply_add whose addition failed has
\* returned; R held limbs before the call.
C24_Witness ==
    /\ pc[1] = "done" /\ op[1].fn = "muladd" /\ calls[1] = 3
    /\ status[1] = PKE_FAULT /\ result[1] = MBEDTLS_ERR_PLATFORM_HW_ACCEL_FAILED
    /\ op[1].R0 # NoPoint /\ R[1] = op[1].R0

\* The buffers the engine call thread t is in has been handed.
PassedBuffers(t) ==
    LET b == bufs[t]
    IN  IF pc[t] = "verify" THEN {b.Q1x, b.Q1y}
        ELSE IF pc[t] \in {"mul", "mul1"} THEN {b.ms, b.Q1x, b.Q1y}
        ELSE IF pc[t] = "x25519" THEN {b.ms, b.Q1x}
        ELSE IF pc[t] = "mul2" THEN {b.ms, b.Q2x, b.Q2y}
        ELSE IF pc[t] = "add" THEN {b.Q1x, b.Q1y, b.Q2x, b.Q2y}
        ELSE {}

\* Word w (from 0) of buf holds in each byte what the stack held.
StackWord(buf, w, g) == \A i \in 1..WordBytes : buf[w * WordBytes + i] = g

\* C25 (as claimed): where the stack held a nonzero byte pattern before the
\* call, no word of a buffer handed to the engine still holds that pattern.
C25_EngineReadsWritten ==
    \A t \in Threads :
        op[t].g # 0 =>
            \A buf \in PassedBuffers(t) :
                \A w \in 0..(WordLen(t) - 1) : ~StackWord(buf, w, op[t].g)

====
